---------------------------- MODULE Spec2Model ----------------------------
(***************************************************************************)
(* A model of the maze repository: the rectangular and the circular board  *)
(* topologies (index/position maps, direction algebra, inter-wall          *)
(* operations) and the row-sweep generator of maze/generators/eller.ts.    *)
(*                                                                         *)
(* Six specifications share the variables:                                 *)
(*   SpecFn    a board is constructed, then one topology function is       *)
(*             applied to inputs drawn from the board's valid domain;      *)
(*   SpecWalls a rectangular board is constructed, then setInterWall and   *)
(*             removeInterWall are called on adjacent positions;           *)
(*   SpecGen   generate(board, fns) runs on a constructed board, one loop  *)
(*             iteration per step, every random outcome enumerated;        *)
(*   SpecGenGap the same run with an adapter whose getNextRowNeighbours    *)
(*             returns an empty list for some cells;                       *)
(*   SpecGenLive the run of SpecGen with weak fairness of its steps;       *)
(*   SpecPlayer the handlers of player/index.ts on the boards of the       *)
(*             Board class.                                                *)
(***************************************************************************)
EXTENDS Integers, Sequences, FiniteSets, TLC

VARIABLES
  board,      \* the board: topology kind, size metadata and the cell array
  call,       \* SpecFn: the last function application (name, inputs, outputs)
  nCalls,     \* SpecWalls: number of wall operations applied so far
  pathSets,   \* SpecGen: generate's pathSets, a sequence of sets of cell indexes
  removed,    \* SpecGen: the (index1, index2) pairs passed to fns.removeInterWall, in order
  pc,         \* SpecGen: position inside generate
  rowIdx,     \* SpecGen: 1-based index into rows of the row being swept
  i,          \* SpecGen: visitRow's loop variable i (0-based, as in the code)
  setIdx,     \* SpecGen: 1-based index of visitNextRow's current set
  picked,     \* SpecGen: the first n cells of the shuffled rowCells of the current set
  k,          \* SpecGen: visitNextRow's inner loop variable i (0-based)
  player      \* SpecPlayer: the value of player$ (visible, position)

vars == <<board, call, nCalls, pathSets, removed, pc, rowIdx, i, setIdx, picked, k, player>>

---------------------------------------------------------------------------
(* Bounds of the model.                                                    *)

MaxWidth == 3
MaxHeight == 3
MaxRadius == 6
MaxCalls == 3
MaxGenCells == 9
MaxGenRingCells == 14
MaxLiveCells == 9
MaxMazeCells == 6

---------------------------------------------------------------------------
(* Bit helpers on byte-sized cell values.                                  *)

\* bit test of the single-bit flag d in value v
HasBit(v, d) == d > 0 /\ (v \div d) % 2 = 1

\* v | d for a single-bit flag d (d = 0 leaves v as it is)
OrBit(v, d) == IF d = 0 \/ HasBit(v, d) THEN v ELSE v + d

\* v & ~d for a single-bit flag d
AndNotBit(v, d) == IF HasBit(v, d) THEN v - d ELSE v

Max(a, b) == IF a > b THEN a ELSE b

RECURSIVE sum(_)
sum(nums) == IF nums = <<>> THEN 0 ELSE Head(nums) + sum(Tail(nums))

\* Array.prototype.slice(from) on a sequence
Slice(s, from) == SubSeq(s, from + 1, Len(s))

---------------------------------------------------------------------------
(* base.ts is not part of the sources: isEnabled and hasCellWall follow    *)
(* the specification (a reserved bit marks a structurally inactive cell;   *)
(* hasWall is a single-bit read).                                          *)

DisabledBit == 128

isEnabled(cell) == ~HasBit(cell, DisabledBit)

\* hasCellWall(cell, Math.log2(direction)): the bit of that direction
hasCellWall(cell, direction) == HasBit(cell, direction)

---------------------------------------------------------------------------
(* Rectangular topology.                                                   *)

Rect_TOP == 1
Rect_RIGHT == 2
Rect_BOTTOM == 4
Rect_LEFT == 8

Rect_Directions == {Rect_TOP, Rect_RIGHT, Rect_BOTTOM, Rect_LEFT}

\* a direction result, or the thrown "are not neighbours"
Dir(d) == [threw |-> FALSE, dir |-> d]
Threw == [threw |-> TRUE, dir |-> 0]

rectangularBoard(width, height) ==
  [kind |-> "rect", width |-> width, height |-> height, radius |-> 0, innerRadius |-> 0,
   cells |-> [c \in 0 .. width * height - 1 |-> 0]]

Rect_Positions(b) == [x : 0 .. b.width - 1, y : 0 .. b.height - 1]

Rect_toIndex(position, b) == position.y * b.width + position.x

Rect_toPosition(index, b) == [x |-> index % b.height, y |-> index \div b.height]

\* cells[toIndex(position)]; an index outside the array reads undefined,
\* which no caller in the model reaches (positions are inside the board)
Rect_getCell(position, b) == b.cells[Rect_toIndex(position, b)]

Rect_setCell(position, value, b) ==
  [b EXCEPT !.cells[Rect_toIndex(position, b)] = value % 256]

\* a rotation by one bit instead of two
Rect_getOpposingDirection_rot1(direction) == ((direction * 2) % 16) + (direction \div 8)

\* ((direction << 2) | (direction >> 2)) & 0b1111 on a 4-bit value: the two
\* shifted parts have no bit in common, so the or is their sum
Rect_getOpposingDirection(direction) == ((direction * 4) % 16) + (direction \div 4)

Rect_getRelativeDirection(pos1, pos2) ==
  IF pos1.y < pos2.y THEN Dir(Rect_TOP)
  ELSE IF pos1.x > pos2.x THEN Dir(Rect_RIGHT)
  ELSE IF pos1.y > pos2.y THEN Dir(Rect_BOTTOM)
  ELSE IF pos1.x < pos2.x THEN Dir(Rect_LEFT)
  ELSE Threw

Rect_getRelativePosition(p, direction) ==
  [x |-> p.x + (IF direction = Rect_RIGHT THEN 1 ELSE 0)
              - (IF direction = Rect_LEFT THEN 1 ELSE 0),
   y |-> p.y + (IF direction = Rect_BOTTOM THEN 1 ELSE 0)
              - (IF direction = Rect_TOP THEN 1 ELSE 0)]

Rect_hasWall(position, direction, b) == hasCellWall(Rect_getCell(position, b), direction)

\* TRUE/FALSE, or "threw" when getRelativeDirection throws
Rect_hasInterWall(pos1, pos2, b) ==
  LET cell1Dir == Rect_getRelativeDirection(pos1, pos2)
      cell2Dir == Rect_getOpposingDirection(cell1Dir.dir)
  IN  IF cell1Dir.threw THEN [threw |-> TRUE, has |-> FALSE]
      ELSE [threw |-> FALSE,
            has |-> Rect_hasWall(pos1, cell1Dir.dir, b) /\ Rect_hasWall(pos2, cell2Dir, b)]

\* _setInterWall with fn = "set" (cell | dir) or "remove" (cell & ~dir);
\* both cell1 and cell2 are read from pos1, as the code does
applyWallFn(fn, cell, dir) == IF fn = "set" THEN OrBit(cell, dir) ELSE AndNotBit(cell, dir)

Rect_setInterWallFn(pos1, pos2, b, fn) ==
  LET cell1 == Rect_getCell(pos1, b)
      cell2 == Rect_getCell(pos1, b)
      cell1Dir == Rect_getRelativeDirection(pos1, pos2)
      cell2Dir == Rect_getOpposingDirection(cell1Dir.dir)
      b1 == IF isEnabled(cell1) THEN Rect_setCell(pos1, applyWallFn(fn, cell1, cell1Dir.dir), b)
            ELSE b
      b2 == IF isEnabled(cell2) THEN Rect_setCell(pos2, applyWallFn(fn, cell2, cell2Dir), b1)
            ELSE b1
  IN  IF cell1Dir.threw THEN b ELSE b2

Rect_removeInterWall(pos1, pos2, b) == Rect_setInterWallFn(pos1, pos2, b, "remove")

Rect_setInterWall(pos1, pos2, b) == Rect_setInterWallFn(pos1, pos2, b, "set")

\* the keys of the map getNeighbourCells returns: the directions whose cell is
\* inside the board and enabled and, when visitableOnly, has no inter-wall
\* with the position
Rect_getNeighbourCells(position, b, visitableOnly) ==
  LET index == Rect_toIndex(position, b)
      length == b.width * b.height
      neighbours ==
        {d \in {Rect_TOP} : index >= b.width /\ isEnabled(b.cells[index - b.width])}
          \cup {d \in {Rect_RIGHT} :
                  (index + 1) % b.width # 0 /\ isEnabled(b.cells[index + 1])}
          \cup {d \in {Rect_BOTTOM} :
                  index < length - b.width /\ isEnabled(b.cells[index + b.width])}
          \cup {d \in {Rect_LEFT} : index % b.width # 0 /\ isEnabled(b.cells[index - 1])}
  IN  IF visitableOnly
      THEN {dir \in neighbours :
              ~Rect_hasInterWall(Rect_getRelativePosition(position, dir), position, b).has}
      ELSE neighbours

\* the directions getAllowedDirection returns; the array directions.filter(...)
\* builds is dropped and the unfiltered directions are returned
Rect_getAllowedDirection(position, b, visitableOnly) ==
  {d \in {Rect_TOP} : position.y > 0}
    \cup {d \in {Rect_RIGHT} : position.x < b.width - 1}
    \cup {d \in {Rect_BOTTOM} : position.y < b.height - 1}
    \cup {d \in {Rect_LEFT} : position.x > 0}

\* 4-adjacency of two positions of the board
Rect_Adjacent(p, q) ==
  \/ (p.x = q.x /\ (p.y = q.y + 1 \/ q.y = p.y + 1))
  \/ (p.y = q.y /\ (p.x = q.x + 1 \/ q.x = p.x + 1))

---------------------------------------------------------------------------
(* Circular topology.                                                      *)

Circ_TOP_CW == 1
Circ_TOP_CCW == 2
Circ_RIGHT == 4
Circ_BOTTOM == 8
Circ_LEFT == 16

Circ_Directions == {Circ_TOP_CW, Circ_TOP_CCW, Circ_RIGHT, Circ_BOTTOM, Circ_LEFT}

\* Math.PI as a fraction: PiNum / PiDen exceeds pi by less than 3e-7, so for
\* the ring numbers of the model pi * i > c and PiNum * i > PiDen * c agree
PiNum == 355
PiDen == 113
RatioThreshold == 2

\* nodeCount[ring] of getRingNodeCount: 1 for ring 0, then the previous count,
\* doubled when 2 * Math.PI * ring / nodeCount[ring - 1] > 2
RECURSIVE RingCount(_)
RingCount(ring) ==
  IF ring <= 0 THEN 1
  ELSE LET prev == RingCount(ring - 1)
       IN  IF 2 * PiNum * ring > RatioThreshold * PiDen * prev THEN prev * 2 ELSE prev

\* the returned array has max(radius, 1) elements: nodeCount starts as [1]
getRingNodeCount(radius) == [j \in 1 .. Max(radius, 1) |-> RingCount(j - 1)]

circularBoard(radius, innerRadius) ==
  LET nodeCount == getRingNodeCount(radius)
      totalNodes == sum(Slice(nodeCount, innerRadius))
  IN  [kind |-> "circ", width |-> 0, height |-> 0, radius |-> radius,
       innerRadius |-> innerRadius, cells |-> [c \in 0 .. totalNodes - 1 |-> 0]]

Circ_toIndex(position, b) ==
  LET nodeCount == Slice(getRingNodeCount(b.innerRadius + position.r), b.innerRadius)
  IN  sum(nodeCount) + position.t

\* nodeCountSum of toPosition and getNextRowNeighbours: [0, c0, c0 + c1, ...]
Circ_nodeCountSum(b) ==
  LET nodeCount == Slice(getRingNodeCount(b.radius), b.innerRadius)
  IN  [j \in 1 .. Len(nodeCount) + 1 |-> sum(SubSeq(nodeCount, 1, j - 1))]

\* Array.prototype.findIndex(val => val > index), 0-based, -1 when none
Circ_findIndex(nodeCountSum, index) ==
  LET hits == {j \in 1 .. Len(nodeCountSum) : nodeCountSum[j] > index}
  IN  IF hits = {} THEN -1 ELSE (CHOOSE j \in hits : \A h \in hits : j <= h) - 1

\* defined for the indexes of the cell array (findIndex finds an entry)
Circ_toPosition(index, b) ==
  LET nodeCountSum == Circ_nodeCountSum(b)
      r == Circ_findIndex(nodeCountSum, index)
  IN  [r |-> r - 1, t |-> index - nodeCountSum[(r - 1) + 1]]

\* the valid positions: ring r of the board and offset t below its cell count
Circ_Positions(b) ==
  {p \in [r : 0 .. b.radius - b.innerRadius - 1, t : 0 .. Cardinality(DOMAIN b.cells)] :
     p.t < RingCount(b.innerRadius + p.r)}

Circ_getOpposingDirection(direction) ==
  IF direction = Circ_TOP_CCW \/ direction = Circ_TOP_CW THEN Circ_BOTTOM
  ELSE IF direction = Circ_RIGHT THEN Circ_LEFT
  ELSE IF direction = Circ_LEFT THEN Circ_RIGHT
  ELSE 0   \* Direction.TOP_CW & Direction.TOP_CCW = 0b00001 & 0b00010

Circ_getRelativeDirection(index1, index2, b) ==
  LET pos1 == Circ_toPosition(index1, b)
      pos2 == Circ_toPosition(index2, b)
  IN  IF pos1.r + 1 = pos2.r THEN Dir(Circ_BOTTOM)
      ELSE IF pos1.r = pos2.r /\ pos1.t + 1 = pos2.t THEN Dir(Circ_RIGHT)
      ELSE IF pos1.r = pos2.r /\ pos1.t - 1 = pos2.t THEN Dir(Circ_LEFT)
      ELSE IF pos1.r - 1 = pos2.r /\ index1 % 2 = 0 THEN Dir(Circ_TOP_CW)
      ELSE IF pos1.r - 1 = pos2.r /\ index1 % 2 = 1 THEN Dir(Circ_TOP_CCW)
      ELSE Threw

\* every row starts again at index 0: sum is not carried from ring to ring
Circ_getRows_sumReset(b) ==
  LET nodeCounts == Slice(getRingNodeCount(b.radius), b.innerRadius)
  IN  [j \in 1 .. Len(nodeCounts) |-> [c \in 1 .. nodeCounts[j] |-> c - 1]]

Circ_getRows(b) ==
  LET nodeCounts == Slice(getRingNodeCount(b.radius), b.innerRadius)
  IN  [j \in 1 .. Len(nodeCounts) |->
         [c \in 1 .. nodeCounts[j] |-> sum(SubSeq(nodeCounts, 1, j - 1)) + (c - 1)]]

\* setInterWallValue of base.ts (not part of the sources), as the specification
\* describes the compound wall operations: the relative direction on index1, the
\* opposing direction on index2, each applied only to an enabled cell
setInterWallValue(index1, index2, b, fn) ==
  LET cell1 == b.cells[index1]
      cell2 == b.cells[index2]
      cell1Dir == Circ_getRelativeDirection(index1, index2, b)
      cell2Dir == Circ_getOpposingDirection(cell1Dir.dir)
      c1 == IF isEnabled(cell1) THEN [b.cells EXCEPT ![index1] = applyWallFn(fn, cell1, cell1Dir.dir)]
            ELSE b.cells
      c2 == IF isEnabled(cell2) THEN [c1 EXCEPT ![index2] = applyWallFn(fn, cell2, cell2Dir)]
            ELSE c1
  IN  IF cell1Dir.threw THEN b ELSE [b EXCEPT !.cells = c2]

\* (cell, dir) => cell | dir
Circ_removeInterWall(index1, index2, b) == setInterWallValue(index1, index2, b, "set")

\* one candidate whatever the cell counts of the two rings
Circ_getNextRowNeighbours_single(index, b) ==
  LET nodeCountSum == Circ_nodeCountSum(b)
      r == Circ_findIndex(nodeCountSum, index) - 1
      t == index - nodeCountSum[r + 1]
  IN  <<Circ_toIndex([r |-> r + 1, t |-> t], b)>>

\* t is not doubled: neighbouring cells of a ring share a candidate
Circ_getNextRowNeighbours_shared(index, b) ==
  LET nodeCount == Slice(getRingNodeCount(b.radius), b.innerRadius)
      nodeCountSum == Circ_nodeCountSum(b)
      r == Circ_findIndex(nodeCountSum, index) - 1
      t == index - nodeCountSum[r + 1]
      cellIndex == Circ_toIndex([r |-> r + 1, t |-> t], b)
  IN  IF nodeCount[r + 1] < nodeCount[r + 2]
      THEN <<cellIndex, cellIndex + 1>>
      ELSE <<cellIndex>>

\* meaningful for a cell outside the last ring; r + 1 then names a ring of nodeCount
Circ_getNextRowNeighbours(index, b) ==
  LET nodeCount == Slice(getRingNodeCount(b.radius), b.innerRadius)
      nodeCountSum == Circ_nodeCountSum(b)
      r == Circ_findIndex(nodeCountSum, index) - 1
      t == index - nodeCountSum[r + 1]
  IN  IF nodeCount[r + 1] < nodeCount[r + 2]
      THEN LET cellIndex == Circ_toIndex([r |-> r + 1, t |-> t * 2], b)
           IN  <<cellIndex, cellIndex + 1>>
      ELSE <<Circ_toIndex([r |-> r + 1, t |-> t], b)>>

---------------------------------------------------------------------------
(* SpecFn: a constructed board, then one function application.             *)

NoCall == [fn |-> "none", in |-> <<>>, out |-> <<>>]

\* the values of the four wall bits of a rectangular cell
Rect_WallValues == 0 .. (Rect_TOP + Rect_RIGHT + Rect_BOTTOM + Rect_LEFT)

RectBoards == {rectangularBoard(w, h) : w \in 1 .. MaxWidth, h \in 1 .. MaxHeight}

CircBoards ==
  UNION {{circularBoard(radius, innerRadius) : innerRadius \in 0 .. radius - 1} :
           radius \in 1 .. MaxRadius}

\* player$ before any handler has run: visible, at the origin
InitialPlayer == [visible |-> TRUE, position |-> [x |-> 0, y |-> 0]]

GenIdle ==
  /\ pathSets = <<>> /\ removed = <<>> /\ pc = "idle"
  /\ rowIdx = 0 /\ i = 0 /\ setIdx = 0 /\ picked = <<>> /\ k = 0

genVars == <<pathSets, removed, pc, rowIdx, i, setIdx, picked, k>>

InitFn ==
  /\ board \in RectBoards \cup CircBoards
  /\ call = NoCall
  /\ nCalls = 0
  /\ GenIdle
  /\ player = InitialPlayer

\* toPosition(toIndex(p)) on a rectangular board
RectToPositionOfToIndex ==
  /\ call = NoCall /\ board.kind = "rect"
  /\ \E p \in Rect_Positions(board) :
       call' = [fn |-> "Rect_toPosition", in |-> <<p>>,
                out |-> <<Rect_toPosition(Rect_toIndex(p, board), board)>>]
  /\ UNCHANGED <<player, board, nCalls, genVars>>

\* toIndex(toPosition(index)) on a rectangular board
RectToIndexOfToPosition ==
  /\ call = NoCall /\ board.kind = "rect"
  /\ \E index \in DOMAIN board.cells :
       call' = [fn |-> "Rect_toIndex", in |-> <<index>>,
                out |-> <<Rect_toIndex(Rect_toPosition(index, board), board)>>]
  /\ UNCHANGED <<player, board, nCalls, genVars>>

\* getRelativeDirection(pos1, pos2) on two positions of a rectangular board
RectGetRelativeDirection ==
  /\ call = NoCall /\ board.kind = "rect"
  /\ \E pos1 \in Rect_Positions(board), pos2 \in Rect_Positions(board) :
       call' = [fn |-> "Rect_getRelativeDirection", in |-> <<pos1, pos2>>,
                out |-> <<Rect_getRelativeDirection(pos1, pos2)>>]
  /\ UNCHANGED <<player, board, nCalls, genVars>>

\* setCell on two adjacent positions, then hasInterWall in both argument orders
RectHasInterWall ==
  /\ call = NoCall /\ board.kind = "rect"
  /\ \E A \in Rect_Positions(board), B \in Rect_Positions(board) :
       /\ Rect_Adjacent(A, B)
       /\ \E vA \in Rect_WallValues, vB \in Rect_WallValues :
            LET b == Rect_setCell(B, vB, Rect_setCell(A, vA, board))
            IN  /\ board' = b
                /\ call' = [fn |-> "Rect_hasInterWall", in |-> <<A, B>>,
                            out |-> <<Rect_hasInterWall(A, B, b), Rect_hasInterWall(B, A, b)>>]
  /\ UNCHANGED <<player, nCalls, genVars>>

\* the wall-bit values of a rectangular cell, enabled or marked inactive
Rect_CellValues == Rect_WallValues \cup {DisabledBit + v : v \in Rect_WallValues}

\* setCell on two adjacent positions, then setInterWall or removeInterWall on them
RectInterWallOnCells ==
  /\ call = NoCall /\ board.kind = "rect"
  /\ \E pos1 \in Rect_Positions(board), pos2 \in Rect_Positions(board) :
       /\ Rect_Adjacent(pos1, pos2)
       /\ \E v1 \in Rect_CellValues, v2 \in Rect_CellValues, fn \in {"set", "remove"} :
            LET b == Rect_setCell(pos2, v2, Rect_setCell(pos1, v1, board))
            IN  /\ board' = Rect_setInterWallFn(pos1, pos2, b, fn)
                /\ call' = [fn |-> "Rect_setInterWallFn", in |-> <<pos1, pos2, v1, v2, fn>>,
                            out |-> <<>>]
  /\ UNCHANGED <<player, nCalls, genVars>>

\* setCell on a position and one of its neighbours, then getAllowedDirection
\* and getNeighbourCells on the position, both with visitableOnly = true
RectGetAllowedDirection ==
  /\ call = NoCall /\ board.kind = "rect"
  /\ \E position \in Rect_Positions(board), other \in Rect_Positions(board) :
       /\ Rect_Adjacent(position, other)
       /\ \E v1 \in Rect_WallValues, v2 \in Rect_CellValues :
            LET b == Rect_setCell(other, v2, Rect_setCell(position, v1, board))
            IN  /\ board' = b
                /\ call' = [fn |-> "Rect_getAllowedDirection", in |-> <<position, other>>,
                            out |-> <<Rect_getAllowedDirection(position, b, TRUE),
                                      Rect_getNeighbourCells(position, b, TRUE)>>]
  /\ UNCHANGED <<player, nCalls, genVars>>

\* toIndex(toPosition(index)) on a circular board
CircToIndexOfToPosition ==
  /\ call = NoCall /\ board.kind = "circ"
  /\ \E index \in DOMAIN board.cells :
       call' = [fn |-> "Circ_toIndex", in |-> <<index>>,
                out |-> <<Circ_toIndex(Circ_toPosition(index, board), board)>>]
  /\ UNCHANGED <<player, board, nCalls, genVars>>

\* toPosition(toIndex(p)) on a circular board; toPosition is applied only to
\* an index of the cell array (elsewhere findIndex finds nothing)
CircToPositionOfToIndex ==
  /\ call = NoCall /\ board.kind = "circ"
  /\ \E p \in Circ_Positions(board) :
       LET index == Circ_toIndex(p, board)
       IN  call' = [fn |-> "Circ_toPosition", in |-> <<p>>,
                    out |-> IF index \in DOMAIN board.cells
                            THEN <<Circ_toPosition(index, board)>>
                            ELSE <<>>]
  /\ UNCHANGED <<player, board, nCalls, genVars>>

\* getRelativeDirection(index1, index2) on two cells of a circular board
CircGetRelativeDirection ==
  /\ call = NoCall /\ board.kind = "circ"
  /\ \E index1 \in DOMAIN board.cells, index2 \in DOMAIN board.cells :
       call' = [fn |-> "Circ_getRelativeDirection", in |-> <<index1, index2>>,
                out |-> <<Circ_getRelativeDirection(index1, index2, board)>>]
  /\ UNCHANGED <<player, board, nCalls, genVars>>

\* getOpposingDirection(direction) of the circular topology
CircGetOpposingDirection ==
  /\ call = NoCall /\ board.kind = "circ"
  /\ \E direction \in Circ_Directions :
       call' = [fn |-> "Circ_getOpposingDirection", in |-> <<direction>>,
                out |-> <<Circ_getOpposingDirection(direction)>>]
  /\ UNCHANGED <<player, board, nCalls, genVars>>

\* getNextRowNeighbours on every cell of a ring other than the outermost
CircGetNextRowNeighbours ==
  /\ call = NoCall /\ board.kind = "circ"
  /\ \E ring \in 1 .. Len(Circ_getRows(board)) - 1 :
       call' = [fn |-> "Circ_getNextRowNeighbours", in |-> <<ring>>,
                out |-> [j \in 1 .. Len(Circ_getRows(board)[ring]) |->
                           Circ_getNextRowNeighbours(Circ_getRows(board)[ring][j], board)]]
  /\ UNCHANGED <<player, board, nCalls, genVars>>

\* getRows on a circular board
CircGetRows ==
  /\ call = NoCall /\ board.kind = "circ"
  /\ call' = [fn |-> "Circ_getRows", in |-> <<>>, out |-> Circ_getRows(board)]
  /\ UNCHANGED <<player, board, nCalls, genVars>>

\* removeInterWall on two neighbouring cells of a circular board: two
\* consecutive cells of a ring, or a cell and one of its next-ring neighbours,
\* in either argument order
CircRemoveInterWall ==
  /\ call = NoCall /\ board.kind = "circ"
  /\ \E ring \in 1 .. Len(Circ_getRows(board)) : \E j \in 1 .. Len(Circ_getRows(board)[ring]) :
       LET row == Circ_getRows(board)[ring]
           cell == row[j]
           inRing == IF j < Len(row) THEN {row[j + 1]} ELSE {}
           outward == IF ring < Len(Circ_getRows(board))
                      THEN {Circ_getNextRowNeighbours(cell, board)[m] :
                              m \in 1 .. Len(Circ_getNextRowNeighbours(cell, board))}
                      ELSE {}
       IN  \E other \in inRing \cup outward, swap \in BOOLEAN :
             LET index1 == IF swap THEN other ELSE cell
                 index2 == IF swap THEN cell ELSE other
             IN  /\ board' = Circ_removeInterWall(index1, index2, board)
                 /\ call' = [fn |-> "Circ_removeInterWall", in |-> <<index1, index2>>,
                             out |-> <<>>]
  /\ UNCHANGED <<player, nCalls, genVars>>

NextFn ==
  \/ RectToPositionOfToIndex
  \/ RectToIndexOfToPosition
  \/ RectGetRelativeDirection
  \/ RectHasInterWall
  \/ RectInterWallOnCells
  \/ RectGetAllowedDirection
  \/ CircToIndexOfToPosition
  \/ CircToPositionOfToIndex
  \/ CircGetRelativeDirection
  \/ CircGetOpposingDirection
  \/ CircGetNextRowNeighbours
  \/ CircGetRows
  \/ CircRemoveInterWall

SpecFn == InitFn /\ [][NextFn]_vars

---------------------------------------------------------------------------
(* SpecWalls: a freshly constructed rectangular board, then setInterWall   *)
(* and removeInterWall on adjacent positions.                              *)

InitWalls ==
  /\ board \in RectBoards
  /\ call = NoCall
  /\ nCalls = 0
  /\ GenIdle
  /\ player = InitialPlayer

SetInterWall ==
  /\ nCalls < MaxCalls
  /\ \E pos1 \in Rect_Positions(board), pos2 \in Rect_Positions(board) :
       /\ Rect_Adjacent(pos1, pos2)
       /\ board' = Rect_setInterWall(pos1, pos2, board)
  /\ nCalls' = nCalls + 1
  /\ UNCHANGED <<player, call, genVars>>

RemoveInterWall ==
  /\ nCalls < MaxCalls
  /\ \E pos1 \in Rect_Positions(board), pos2 \in Rect_Positions(board) :
       /\ Rect_Adjacent(pos1, pos2)
       /\ board' = Rect_removeInterWall(pos1, pos2, board)
  /\ nCalls' = nCalls + 1
  /\ UNCHANGED <<player, call, genVars>>

NextWalls == SetInterWall \/ RemoveInterWall

SpecWalls == InitWalls /\ [][NextWalls]_vars

---------------------------------------------------------------------------
(* Path sets (_pathSet.ts is not part of the sources; modelled from the    *)
(* specification's find / sameSet / join).  A set is named by its 1-based  *)
(* place in the collection, 0 standing for null.                           *)

getItemSet(item, itemSets) ==
  LET hits == {j \in 1 .. Len(itemSets) : item \in itemSets[j]}
  IN  IF hits = {} THEN 0 ELSE CHOOSE j \in hits : \A h \in hits : j <= h

isFromSameSet(item1, item2, itemSets) ==
  /\ getItemSet(item1, itemSets) # 0
  /\ getItemSet(item1, itemSets) = getItemSet(item2, itemSets)

\* the collection without its j-th set
DropSet(itemSets, j) ==
  [m \in 1 .. Len(itemSets) - 1 |-> IF m < j THEN itemSets[m] ELSE itemSets[m + 1]]

joinItemSets(item1, item2, itemSets) ==
  LET set1 == getItemSet(item1, itemSets)
      set2 == getItemSet(item2, itemSets)
  IN  IF set1 # 0 /\ set2 # 0
      THEN IF set1 = set2 THEN itemSets
           ELSE DropSet([itemSets EXCEPT ![set1] = itemSets[set1] \cup itemSets[set2]], set2)
      ELSE IF set1 # 0 THEN [itemSets EXCEPT ![set1] = itemSets[set1] \cup {item2}]
      ELSE IF set2 # 0 THEN [itemSets EXCEPT ![set2] = itemSets[set2] \cup {item1}]
      ELSE Append(itemSets, {item1, item2})

---------------------------------------------------------------------------
(* The board functions handed to generate.  The circular ones are the      *)
(* sources' getRows, removeInterWall and getNextRowNeighbours.  The        *)
(* rectangular adapter is not part of the sources: its rows are the grid   *)
(* rows and the next-row neighbour of a cell is the cell below it; its     *)
(* effect on the cell array is left out, the calls are recorded.           *)

Rect_getRows(b) ==
  [y \in 1 .. b.height |-> [x \in 1 .. b.width |-> (y - 1) * b.width + (x - 1)]]

Rect_getNextRowNeighbours(index, b) == <<index + b.width>>

\* the value of an array element that does not exist
Undefined == -1

\* An adapter with a gap: the rectangular adapter, except that
\* getNextRowNeighbours returns the empty list for the cells of the first
\* column.  Its removeInterWall, handed an undefined index, throws ("gapStrict",
\* as getRelativeDirection of both topologies does on a position it cannot
\* place) or returns the board as it is ("gapLenient").
GapKinds == {"gapStrict", "gapLenient"}

Gap_getNextRowNeighbours(index, b) ==
  IF index % b.width = 0 THEN <<>> ELSE Rect_getNextRowNeighbours(index, b)

fns_getRows(b) == IF b.kind = "circ" THEN Circ_getRows(b) ELSE Rect_getRows(b)

fns_getNextRowNeighbours(index, b) ==
  IF b.kind = "circ" THEN Circ_getNextRowNeighbours(index, b)
  ELSE IF b.kind \in GapKinds THEN Gap_getNextRowNeighbours(index, b)
  ELSE Rect_getNextRowNeighbours(index, b)

\* does fns.removeInterWall(index1, index2, board) throw
fns_removeInterWallThrows(index1, index2, b) ==
  IF index2 = Undefined THEN b.kind \in {"circ", "gapStrict"}
  ELSE b.kind = "circ" /\ Circ_getRelativeDirection(index1, index2, b).threw

\* getRandomFrom(list): the values it can return; list[0] of an empty list
\* is undefined
getRandomFrom(list) == IF Len(list) = 0 THEN {Undefined} ELSE {list[j] : j \in 1 .. Len(list)}

fns_removeInterWall(index1, index2, b) ==
  IF b.kind = "circ" THEN Circ_removeInterWall(index1, index2, b) ELSE b

Range(s) == {s[j] : j \in 1 .. Len(s)}

\* shuffle(rowCells) cut to its first n elements, for every n in 1 .. length:
\* the sequences of distinct cells of rowCells
ShuffledPrefixes(rowCells) ==
  UNION {{s \in [1 .. n -> rowCells] : \A a \in 1 .. n, c \in 1 .. n : a # c => s[a] # s[c]} :
           n \in 1 .. Cardinality(rowCells)}

---------------------------------------------------------------------------
(* SpecGen: generate(board, fns).                                          *)

\* the boards generate is run on: rectangular boards of at most MaxGenCells
\* cells, circular boards of at most MaxGenRingCells cells
GenBoards ==
  {b \in RectBoards : Cardinality(DOMAIN b.cells) <= MaxGenCells}
    \cup {b \in CircBoards : Cardinality(DOMAIN b.cells) <= MaxGenRingCells}

rows == fns_getRows(board)

\* the row visitRow sweeps: the current row, or rows[0] in the final pass
VisitedRow == IF pc = "finalRow" THEN rows[1] ELSE rows[rowIdx]

InitGen ==
  /\ board \in GenBoards
  /\ call = NoCall
  /\ nCalls = 0
  /\ pathSets = [j \in 1 .. Len(rows[1]) |-> {rows[1][j]}]
  /\ removed = <<>>
  /\ pc = IF Len(rows) > 1 THEN "visitRow" ELSE "finalRow"
  /\ rowIdx = 1
  /\ i = 1
  /\ setIdx = 0
  /\ picked = <<>>
  /\ k = 0
  /\ player = InitialPlayer

\* the pair is skipped when both cells are already in one set
visitRow_skip_never(item1, item2, itemSets) == FALSE

visitRow_skip(item1, item2, itemSets) == isFromSameSet(item1, item2, itemSets)

\* continue without the loop's i++
visitRow_continue_stay(j) == j

\* continue: the for loop's i++ runs and the next pair is taken
visitRow_continue(j) == j + 1

\* only the left cell of an unmerged pair is given a set
visitRow_track_leftOnly(item1, item2, itemSets) ==
  IF getItemSet(item1, itemSets) = 0 THEN Append(itemSets, {item1}) ELSE itemSets

\* the pair is not merged: a cell of it that no set tracks gets a set of its
\* own, the left cell first
visitRow_track(item1, item2, itemSets) ==
  IF getItemSet(item1, itemSets) = 0 THEN Append(itemSets, {item1})
  ELSE IF getItemSet(item2, itemSets) = 0 THEN Append(itemSets, {item2})
  ELSE itemSets

\* one iteration of visitRow's loop: the pair row[i - 1], row[i]
VisitRowStep ==
  /\ pc \in {"visitRow", "finalRow"}
  /\ i < Len(VisitedRow)
  /\ LET left == VisitedRow[i]
         right == VisitedRow[i + 1]
         mergeAll == (pc = "finalRow")
     IN  \E random \in BOOLEAN :   \* Math.random() > 0.5
           IF visitRow_skip(left, right, pathSets)
           THEN /\ i' = visitRow_continue(i)
                /\ UNCHANGED <<board, pathSets, removed, pc>>
           ELSE IF random \/ mergeAll
           THEN IF fns_removeInterWallThrows(left, right, board)
                THEN /\ removed' = Append(removed, <<left, right>>)
                     /\ pc' = "threw"
                     /\ UNCHANGED <<board, pathSets, i>>
                ELSE /\ board' = fns_removeInterWall(left, right, board)
                     /\ removed' = Append(removed, <<left, right>>)
                     /\ pathSets' = joinItemSets(left, right, pathSets)
                     /\ i' = i + 1
                     /\ UNCHANGED pc
           ELSE /\ pathSets' = visitRow_track(left, right, pathSets)
                /\ i' = i + 1
                /\ UNCHANGED <<board, removed, pc>>
  /\ UNCHANGED <<player, call, nCalls, rowIdx, setIdx, picked, k>>

\* visitRow returns: generate goes on to visitNextRow, or returns after the final pass
VisitRowReturn ==
  /\ pc \in {"visitRow", "finalRow"}
  /\ i >= Len(VisitedRow)
  /\ IF pc = "visitRow"
     THEN pc' = "visitNextRow" /\ setIdx' = 1
     ELSE pc' = "done" /\ UNCHANGED setIdx
  /\ UNCHANGED <<player, board, call, nCalls, pathSets, removed, rowIdx, i, picked, k>>

\* n drawn from 0 .. length instead of 1 .. length: a set may open no wall forward
VisitNextRowSet_nFromZero ==
  /\ pc = "visitNextRow"
  /\ setIdx <= Len(pathSets)
  /\ LET rowCells == pathSets[setIdx] \cap Range(rows[rowIdx])
     IN  \/ setIdx' = setIdx + 1 /\ UNCHANGED <<pc, picked, k>>
         \/ /\ picked' \in ShuffledPrefixes(rowCells)
            /\ k' = 0
            /\ pc' = "advance"
            /\ UNCHANGED setIdx
  /\ UNCHANGED <<player, board, call, nCalls, pathSets, removed, rowIdx, i>>

\* visitNextRow's outer loop reaches a set: rowCells, shuffle and n.  With no
\* cell of the set in the row, n = 1 + Math.round(-Math.random()) is 0 or 1, and
\* n = 1 takes rowCells[0] = undefined, on which the board functions throw.
VisitNextRowSet ==
  /\ pc = "visitNextRow"
  /\ setIdx <= Len(pathSets)
  /\ LET rowCells == pathSets[setIdx] \cap Range(rows[rowIdx])
     IN  IF rowCells = {}
         THEN \E n \in {0, 1} :
                IF n = 0
                THEN setIdx' = setIdx + 1 /\ UNCHANGED <<pc, picked, k>>
                ELSE pc' = "threw" /\ UNCHANGED <<setIdx, picked, k>>
         ELSE /\ picked' \in ShuffledPrefixes(rowCells)
              /\ k' = 0
              /\ pc' = "advance"
              /\ UNCHANGED setIdx
  /\ UNCHANGED <<player, board, call, nCalls, pathSets, removed, rowIdx, i>>

\* the next-row cell is left out of the set
visitNextRow_add_none(set, nextCell) == set

\* set.add(nextCell)
visitNextRow_add(set, nextCell) == set \cup {nextCell}

\* one iteration of visitNextRow's inner loop on rowCells[k]; after the last of
\* the n cells the outer loop moves to the next set
AdvanceCell ==
  /\ pc = "advance"
  /\ k < Len(picked)
  /\ LET cell == picked[k + 1]
         nextRowCells == fns_getNextRowNeighbours(cell, board)
     IN  \E nextCell \in getRandomFrom(nextRowCells) :
           IF fns_removeInterWallThrows(cell, nextCell, board)
           THEN /\ removed' = Append(removed, <<cell, nextCell>>)
                /\ pc' = "threw"
                /\ UNCHANGED <<board, pathSets, k, setIdx>>
           ELSE /\ board' = fns_removeInterWall(cell, nextCell, board)
                /\ removed' = Append(removed, <<cell, nextCell>>)
                /\ pathSets' = [pathSets EXCEPT ![setIdx] = visitNextRow_add(pathSets[setIdx], nextCell)]
                /\ k' = k + 1
                /\ IF k + 1 = Len(picked)
                   THEN pc' = "visitNextRow" /\ setIdx' = setIdx + 1
                   ELSE UNCHANGED <<pc, setIdx>>
  /\ UNCHANGED <<player, call, nCalls, rowIdx, i, picked>>

\* visitNextRow returns: the loop of generate takes the next row of
\* rows.slice(0, -1), or leaves for the final visitRow(rows[0], true, ...)
VisitNextRowReturn ==
  /\ pc = "visitNextRow"
  /\ setIdx > Len(pathSets)
  /\ rowIdx' = rowIdx + 1
  /\ i' = 1
  /\ pc' = IF rowIdx + 1 < Len(rows) THEN "visitRow" ELSE "finalRow"
  /\ UNCHANGED <<player, board, call, nCalls, pathSets, removed, setIdx, picked, k>>

NextGen ==
  \/ VisitRowStep
  \/ VisitRowReturn
  \/ VisitNextRowSet
  \/ AdvanceCell
  \/ VisitNextRowReturn

SpecGen == InitGen /\ [][NextGen]_vars

---------------------------------------------------------------------------
(* SpecGenLive: generate(board, fns) as a running call.  generate is       *)
(* synchronous code: whenever a loop iteration or a return is possible the *)
(* next one is executed, which is weak fairness on the steps of NextGen.   *)

LiveBoards == {b \in RectBoards \cup CircBoards : Cardinality(DOMAIN b.cells) <= MaxLiveCells}

InitGenLive == InitGen /\ board \in LiveBoards

SpecGenLive == InitGenLive /\ [][NextGen]_vars /\ WF_vars(NextGen)

---------------------------------------------------------------------------
(* SpecGenGap: generate(board, fns) with the adapters that have a gap.      *)

GapBoards ==
  {[b EXCEPT !.kind = kind] :
     b \in {r \in RectBoards : r.height >= 2 /\ Cardinality(DOMAIN r.cells) <= MaxGenCells},
     kind \in GapKinds}

InitGenGap ==
  /\ board \in GapBoards
  /\ call = NoCall
  /\ nCalls = 0
  /\ pathSets = [j \in 1 .. Len(rows[1]) |-> {rows[1][j]}]
  /\ removed = <<>>
  /\ pc = "visitRow"
  /\ rowIdx = 1
  /\ i = 1
  /\ setIdx = 0
  /\ picked = <<>>
  /\ k = 0
  /\ player = InitialPlayer

SpecGenGap == InitGenGap /\ [][NextGen]_vars

---------------------------------------------------------------------------
(* The Board class the player moves on.  A cell is the set of the          *)
(* directions in which it has a wall.  cell.ts and utils are not part of   *)
(* the sources: a new Cell has all four walls, hasWall tests one of them,  *)
(* the opposing directions are UP/DOWN and LEFT/RIGHT, Point.toIndex is    *)
(* y * width + x (the order in which initCells pushes the cells), and the  *)
(* TOP and BOTTOM of the player's keyMap are the board's UP and DOWN.      *)

RectangularDirection == {"UP", "RIGHT", "DOWN", "LEFT"}

OpposingRectangularDirection(direction) ==
  CASE direction = "UP" -> "DOWN"
    [] direction = "DOWN" -> "UP"
    [] direction = "LEFT" -> "RIGHT"
    [] direction = "RIGHT" -> "LEFT"

Board_Positions(b) == [x : 0 .. b.width - 1, y : 0 .. b.height - 1]

Point_toIndex(position, width) == position.y * width + position.x

\* the position the constructor gave to the cell at an index
Cell_position(index, b) == [x |-> index % b.width, y |-> index \div b.width]

Board_getCell(position, b) == b.cells[Point_toIndex(position, b.width)]

Board_hasWall(position, direction, b) == direction \in Board_getCell(position, b)

\* the direction, or "threw"; the four tests in the order of the code
Board_getRelativeDirection(cell1, cell2) ==
  IF cell1.y = cell2.y + 1 THEN "UP"
  ELSE IF cell1.x = cell2.x - 1 THEN "RIGHT"
  ELSE IF cell1.x = cell2.x + 1 THEN "LEFT"
  ELSE IF cell1.y = cell2.y - 1 THEN "DOWN"
  ELSE "threw"

\* called on neighbouring cells only, where getRelativeDirection does not throw
Board_hasInterWall(cell1, cell2, b) ==
  LET relativeWall == Board_getRelativeDirection(cell1, cell2)
      opposingWall == OpposingRectangularDirection(relativeWall)
  IN  Board_hasWall(cell1, relativeWall, b) /\ Board_hasWall(cell2, opposingWall, b)

\* the neighbours inside the board: direction |-> index of the cell
Board_neighbours(position, b) ==
  LET index == Point_toIndex(position, b.width)
      length == b.width * b.height
  IN  [d \in {d \in {"UP"} : index >= b.width}
               \cup {d \in {"RIGHT"} : (index + 1) % b.width # 0}
               \cup {d \in {"DOWN"} : index < length - b.width}
               \cup {d \in {"LEFT"} : index % b.width # 0} |->
         CASE d = "UP" -> index - b.width
           [] d = "RIGHT" -> index + 1
           [] d = "DOWN" -> index + b.width
           [] d = "LEFT" -> index - 1]

\* the keys of the map getNeighbourCells returns
Board_getNeighbourCells(position, b, visitableOnly) ==
  LET neighbours == Board_neighbours(position, b)
  IN  IF visitableOnly
      THEN {d \in DOMAIN neighbours :
              ~Board_hasInterWall(Cell_position(neighbours[d], b), position, b)}
      ELSE DOMAIN neighbours

\* new Board(width, height): every cell with its four walls
Board_new(width, height) ==
  [kind |-> "class", width |-> width, height |-> height, radius |-> 0, innerRadius |-> 0,
   cells |-> [c \in 0 .. width * height - 1 |-> RectangularDirection]]

\* the pairs of neighbouring cell indexes of a board
Board_Edges(b) ==
  {e \in SUBSET (0 .. b.width * b.height - 1) :
     \E c \in e, d \in e :
       /\ e = {c, d}
       /\ \/ d = c + 1 /\ d % b.width # 0
          \/ d = c + b.width}

\* the board after removeInterWall on each pair of open: each of the two cells
\* loses its wall towards the other
Board_removeInterWalls(open, b) ==
  [b EXCEPT !.cells =
     [c \in DOMAIN b.cells |->
        b.cells[c] \ {Board_getRelativeDirection(Cell_position(c, b), Cell_position(d, b)) :
                        d \in {d \in DOMAIN b.cells : {c, d} \in open}}]]

\* the sizes <<width, height>> of the boards of at most maxCells cells
Board_Sizes(maxCells) ==
  {size \in (1 .. MaxWidth) \X (1 .. MaxHeight) : size[1] * size[2] <= maxCells}

\* boards a maze generator can hand over: a new board and removeInterWall calls
MazeBoards ==
  UNION {{Board_removeInterWalls(open, Board_new(size[1], size[2])) :
            open \in SUBSET Board_Edges(Board_new(size[1], size[2]))} :
           size \in Board_Sizes(MaxMazeCells)}

\* the boards board$ emits
PlayerBoards == MazeBoards

---------------------------------------------------------------------------
(* SpecPlayer: mountPlayer.  board$ emits boards, keyboard$ emits arrow    *)
(* keys; the keyboard handler runs one iteration of its do/while per step. *)
(* call holds the handler's key, the position it started from and the      *)
(* position after each iteration; pc is "assist" while the loop runs.      *)

keyMap ==
  [ArrowRight |-> "RIGHT", ArrowLeft |-> "LEFT", ArrowUp |-> "UP", ArrowDown |-> "DOWN"]

playerIdleVars == <<nCalls, pathSets, removed, rowIdx, i, setIdx, picked, k>>

InitPlayer ==
  /\ board \in PlayerBoards
  /\ call = NoCall
  /\ nCalls = 0
  /\ GenIdle
  /\ player = InitialPlayer

\* board$ emits: the player is put back at the origin
BoardEmits ==
  /\ pc = "idle"
  /\ board' \in PlayerBoards
  /\ player' = [visible |-> TRUE, position |-> [x |-> 0, y |-> 0]]
  /\ call' = NoCall
  /\ UNCHANGED <<pc, playerIdleVars>>

\* the early return is never taken
KeyDown_wallBlocks_never(position, direction, b) == FALSE

\* the handler returns at once when the player's cell has a wall in the
\* key's direction
KeyDown_wallBlocks(position, direction, b) == Board_hasWall(position, direction, b)

\* keyboard$ emits an arrow key
KeyDown ==
  /\ pc = "idle"
  /\ \E type \in DOMAIN keyMap :
       /\ call' = [fn |-> type, in |-> <<player.position>>, out |-> <<>>]
       /\ pc' = IF KeyDown_wallBlocks(player.position, keyMap[type], board)
                THEN "idle" ELSE "assist"
  /\ UNCHANGED <<board, player, playerIdleVars>>

\* x, y of the handler: after the last iteration, or the player's position
AssistPosition == IF call.out = <<>> THEN call.in[1] ELSE call.out[Len(call.out)]

\* one iteration of the do/while: a step inside the board, then break (and
\* player$.next) or go round again
AssistStep ==
  /\ pc = "assist"
  /\ LET type == call.fn
         x == AssistPosition.x
         y == AssistPosition.y
         moved ==
           IF type = "ArrowRight" /\ x < board.width - 1 THEN [x |-> x + 1, y |-> y]
           ELSE IF type = "ArrowLeft" /\ x > 0 THEN [x |-> x - 1, y |-> y]
           ELSE IF type = "ArrowUp" /\ y > 0 THEN [x |-> x, y |-> y - 1]
           ELSE IF type = "ArrowDown" /\ y < board.height - 1 THEN [x |-> x, y |-> y + 1]
           ELSE [x |-> x, y |-> y]
         visitable == Board_getNeighbourCells(moved, board, TRUE)
     IN  /\ call' = [call EXCEPT !.out = Append(call.out, moved)]
         /\ IF keyMap[type] \notin visitable \/ Cardinality(visitable) > 2
            THEN /\ pc' = "idle"
                 /\ player' = [visible |-> TRUE, position |-> moved]
            ELSE UNCHANGED <<pc, player>>
  /\ UNCHANGED <<board, playerIdleVars>>

NextPlayer ==
  \/ BoardEmits
  \/ KeyDown
  \/ AssistStep

SpecPlayer == InitPlayer /\ [][NextPlayer]_vars

---------------------------------------------------------------------------
(* Claims about the topology functions, checked under SpecFn.              *)

\* C4: on a rectangular board of any width and height, toPosition(toIndex(p)) = p
\* for every position p of the board and toIndex(toPosition(index)) = index for
\* every index of the cell array.
C4_RectIndexPositionInverse ==
  /\ call.fn = "Rect_toPosition" => call.out = call.in
  /\ call.fn = "Rect_toIndex" => call.out = call.in

\* C5: on a circular board with 0 <= innerRadius < radius,
\* toIndex(toPosition(index)) = index for every index of the cell array and
\* toPosition(toIndex(p)) = p for every ring and offset of the board.
C5_CircIndexPositionInverse ==
  /\ call.fn = "Circ_toIndex" => call.out = call.in
  /\ call.fn = "Circ_toPosition" => call.out = call.in

\* C7: for every rectangular board state and every pair of adjacent positions A
\* and B, hasInterWall(A, B, board) and hasInterWall(B, A, board) return the same
\* boolean (and neither throws).
C7_HasInterWallSymmetric ==
  call.fn = "Rect_hasInterWall" =>
    /\ ~call.out[1].threw /\ ~call.out[2].threw
    /\ call.out[1].has = call.out[2].has

\* C7 witness: hasInterWall was applied to a pair whose wall is present on both sides.
C7_Witness ==
  /\ call.fn = "Rect_hasInterWall"
  /\ call.out[1].has /\ call.out[2].has
  /\ board.cells[Rect_toIndex(call.in[1], board)] # board.cells[Rect_toIndex(call.in[2], board)]

\* C8: on a rectangular board, for every position p and every direction d whose
\* neighbour q = getRelativePosition(p, d) lies inside the board,
\* getRelativeDirection(p, q) = d.
C8_RelativeDirectionPointsToNeighbour ==
  call.fn = "Rect_getRelativeDirection" =>
    \A d \in Rect_Directions :
      Rect_getRelativePosition(call.in[1], d) = call.in[2] => call.out[1] = Dir(d)

\* two cells of a circular board are topological neighbours: consecutive in one
\* ring (the ring closes on itself), or a cell and one of its next-ring neighbours
Circ_Neighbours(index1, index2, b) ==
  LET pos1 == Circ_toPosition(index1, b)
      pos2 == Circ_toPosition(index2, b)
      count == RingCount(b.innerRadius + pos1.r)
      lastRing == b.radius - b.innerRadius - 1
      next(index, pos) ==
        IF pos.r < lastRing
        THEN {Circ_getNextRowNeighbours(index, b)[j] :
                j \in 1 .. Len(Circ_getNextRowNeighbours(index, b))}
        ELSE {}
  IN  /\ index1 # index2
      /\ \/ (pos1.r = pos2.r /\ ((pos1.t + 1) % count = pos2.t \/ (pos2.t + 1) % count = pos1.t))
         \/ index2 \in next(index1, pos1)
         \/ index1 \in next(index2, pos2)

\* C9: getRelativeDirection throws for every pair of valid positions that are not
\* topological neighbours, on a rectangular board (not 4-adjacent) and on a
\* circular board (neither consecutive in a ring nor next-ring neighbours).
C9_RelativeDirectionThrowsForNonNeighbours ==
  /\ (call.fn = "Rect_getRelativeDirection" /\ ~Rect_Adjacent(call.in[1], call.in[2]))
       => call.out[1].threw
  /\ (call.fn = "Circ_getRelativeDirection" /\ ~Circ_Neighbours(call.in[1], call.in[2], board))
       => call.out[1].threw

\* C10: the circular getOpposingDirection maps each of the five directions to
\* one of the five directions.
C10_CircOpposingDirectionTotal ==
  call.fn = "Circ_getOpposingDirection" => call.out[1] \in Circ_Directions

\* C11: setInterWall(pos1, pos2) and removeInterWall(pos1, pos2) leave the stored
\* value of a structurally inactive cell unchanged, at pos1 and at pos2, whatever
\* the state of the other cell.
C11_InactiveCellUnchanged ==
  call.fn = "Rect_setInterWallFn" =>
    /\ ~isEnabled(call.in[3]) => Rect_getCell(call.in[1], board) = call.in[3]
    /\ ~isEnabled(call.in[4]) => Rect_getCell(call.in[2], board) = call.in[4]

\* C13: getAllowedDirection(position, board, visitableOnly = true) returns a
\* direction d if and only if d is a key of getNeighbourCells(position, board,
\* true): the neighbour is inside the board, enabled, and has no inter-wall
\* with the position.
C13_AllowedDirectionsAreVisitableNeighbours ==
  call.fn = "Rect_getAllowedDirection" => call.out[1] = call.out[2]

\* the elements of a sequence (the Range defined with the generation run)
Elements(list) == {list[j] : j \in 1 .. Len(list)}

\* C18: on a circular board, for every cell of a ring other than the outermost,
\* getNextRowNeighbours returns distinct valid cell indices of the next ring
\* outward, two when the next ring has double the cells of the cell's ring and
\* one otherwise; the lists of distinct cells of a ring are pairwise disjoint
\* and together cover the next ring.
C18_NextRowNeighboursTileNextRing ==
  call.fn = "Circ_getNextRowNeighbours" =>
    LET ring == Circ_getRows(board)[call.in[1]]
        next == Circ_getRows(board)[call.in[1] + 1]
        lists == call.out
    IN  /\ \A j \in 1 .. Len(lists) :
             /\ Len(lists[j]) = IF Len(next) = 2 * Len(ring) THEN 2 ELSE 1
             /\ Cardinality(Elements(lists[j])) = Len(lists[j])
             /\ Elements(lists[j]) \subseteq DOMAIN board.cells
             /\ Elements(lists[j]) \subseteq Elements(next)
        /\ \A j \in 1 .. Len(lists), m \in 1 .. Len(lists) :
             j # m => Elements(lists[j]) \cap Elements(lists[m]) = {}
        /\ UNION {Elements(lists[j]) : j \in 1 .. Len(lists)} = Elements(next)

\* C18 witness: the lists of a ring whose next ring has as many cells as it
\* has, one candidate for each cell, have been computed on a board that also
\* has a ring followed by one of double the cells.
C18_Witness ==
  /\ call.fn = "Circ_getNextRowNeighbours"
  /\ Len(call.out) >= 2 /\ Len(call.out[1]) = 1
  /\ \E ring \in 1 .. Len(Circ_getRows(board)) - 1 :
       Len(Circ_getRows(board)[ring + 1]) = 2 * Len(Circ_getRows(board)[ring])

\* the rows one after the other
RECURSIVE Flatten(_)
Flatten(seqs) == IF seqs = <<>> THEN <<>> ELSE Head(seqs) \o Flatten(Tail(seqs))

\* C19: on a board built by circularBoard(radius, innerRadius) with innerRadius
\* below radius, getRows returns one row per ring from innerRadius outward, each
\* of that ring's cell count, and the rows one after the other are exactly
\* 0, 1, ..., cells.length - 1: every cell index once, cells.length being the sum
\* of the per-ring counts.
C19_RowsPartitionCells ==
  call.fn = "Circ_getRows" =>
    LET rws == call.out
        length == Cardinality(DOMAIN board.cells)
    IN  /\ Len(rws) = board.radius - board.innerRadius
        /\ \A j \in 1 .. Len(rws) : Len(rws[j]) = RingCount(board.innerRadius + j - 1)
        /\ Flatten(rws) = [c \in 1 .. length |-> c - 1]
        /\ DOMAIN board.cells = 0 .. length - 1

\* C19 witness: getRows has returned three or more rows on a board with a
\* positive inner radius.
C19_Witness ==
  call.fn = "Circ_getRows" /\ board.innerRadius >= 1 /\ Len(call.out) >= 3

---------------------------------------------------------------------------
(* Claims about the rectangular wall operations, checked under SpecWalls.  *)

\* C6: starting from the all-zero rectangular board, after any sequence of
\* setInterWall and removeInterWall calls on adjacent positions, for every pair
\* of adjacent cells A and B the wall bit of A in the direction
\* getRelativeDirection(A, B) equals the wall bit of B in the opposing direction.
C6_WallBitsAgree ==
  \A A \in Rect_Positions(board), B \in Rect_Positions(board) :
    Rect_Adjacent(A, B) =>
      LET d == Rect_getRelativeDirection(A, B).dir
      IN  Rect_hasWall(A, d, board) = Rect_hasWall(B, Rect_getOpposingDirection(d), board)

---------------------------------------------------------------------------
(* Claims about generate, checked under SpecGen.                           *)

\* the cells of every row returned by getRows
AllCells == UNION {Range(rows[j]) : j \in 1 .. Len(rows)}

\* the walls opened by the first n calls of fns.removeInterWall
OpenedBy(n) == {{removed[j][1], removed[j][2]} : j \in 1 .. n}

Opened == OpenedBy(Len(removed))

\* the cells reachable from the cells of S through the walls of E
RECURSIVE Reachable(_, _)
Reachable(S, E) ==
  LET T == S \cup {c \in UNION E : \E e \in E : c \in e /\ e \cap S # {}}
  IN  IF T = S THEN S ELSE Reachable(T, E)

Connected(a, b, E) == b \in Reachable({a}, E)

\* C1: when generate returns, every cell of every row is reachable from every
\* other cell through the walls passed to fns.removeInterWall.
C1_ConnectedWhenDone ==
  pc = "done" => \A a \in AllCells, b \in AllCells : Connected(a, b, Opened)

\* C2: every call of fns.removeInterWall made by visitRow or visitNextRow (the
\* final pass over the first row included) joins two cells that the walls opened
\* before it do not connect: the opened walls contain no cycle.
C2_NoCycle ==
  \A j \in 1 .. Len(removed) :
    ~Connected(removed[j][1], removed[j][2], OpenedBy(j - 1))

\* C2 witness: generate has returned after opening walls inside a row, towards
\* the next row and, in the final pass, inside the first row.
C2_Witness ==
  /\ pc = "done"
  /\ \E j \in 1 .. Len(removed), m \in 1 .. Len(removed) :
       /\ j < m
       /\ removed[j][1] \in Range(rows[1]) /\ removed[j][2] \notin Range(rows[1])
       /\ removed[m][1] \in Range(rows[1]) /\ removed[m][2] \in Range(rows[1])
  /\ \E j \in 1 .. Len(removed) :
       removed[j][1] \notin Range(rows[1]) /\ removed[j][2] = removed[j][1] + 1

\* C3: when generate returns on a board of N cells, exactly N - 1 distinct walls
\* are open (on the 3 by 3 rectangular board: 8 walls, all 9 cells connected).
C3_OpensAllButOne ==
  pc = "done" => Cardinality(Opened) = Cardinality(AllCells) - 1

\* the run never takes the throwing branches
GenNeverThrows == pc # "threw"

\* the next-row neighbour candidates of a cell
NextRowCells(c) == Range(fns_getNextRowNeighbours(c, board))

\* the cell has an opened wall to one of its next-row neighbours
OpensForward(c) == \E nb \in NextRowCells(c) : {c, nb} \in Opened

\* the opened walls between cells of the rows 1 .. j
WallsWithin(j) ==
  LET inner == UNION {Range(rows[m]) : m \in 1 .. j}
  IN  {e \in Opened : e \subseteq inner}

\* C12 (as claimed): after generate completes on a circular board, every cell of
\* every ring except the outermost has an opened wall to at least one of its
\* next-ring neighbours.
C12_EveryCellOpensForward ==
  (pc = "done" /\ board.kind = "circ") =>
    \A j \in 1 .. Len(rows) - 1 : \A c \in Range(rows[j]) : OpensForward(c)

\* C12 (amended): after generate completes on a circular board, every cell of
\* every ring except the outermost is connected, through opened walls between
\* cells of its own and inner rings, to a cell of its own ring that has an opened
\* wall to one of its next-ring neighbours.
C12_EverySetOpensForward ==
  (pc = "done" /\ board.kind = "circ") =>
    \A j \in 1 .. Len(rows) - 1 :
      LET row == Range(rows[j])
          forward == {d \in row : OpensForward(d)}
      IN  row \subseteq Reachable(forward, WallsWithin(j))

\* C12 witness: generate has completed on the board of radius 4 and inner radius
\* 1, and a cell of an inner ring has no opened wall to the next ring.
C12_Witness ==
  /\ pc = "done" /\ board.kind = "circ" /\ board.radius = 4 /\ board.innerRadius = 1
  /\ \E j \in 1 .. Len(rows) - 1 : \E c \in Range(rows[j]) : ~OpensForward(c)

\* the sets of the collection that hold the cell
SetsOf(c) == {j \in 1 .. Len(pathSets) : c \in pathSets[j]}

\* visitRow(row, false, ...) has just returned
AfterVisitRow == pc = "visitNextRow" /\ setIdx = 1

\* C15: after each intra-row pass visitRow(row, false, ...) every cell of that
\* row, the last one and the only cell of a one-cell row included, is a member
\* of exactly one path set, whatever the random choices were.
C15_RowCellsTrackedOnce ==
  AfterVisitRow => \A c \in Range(rows[rowIdx]) : Cardinality(SetsOf(c)) = 1

\* C15 witness: the pass has returned on a row after the first whose last cell
\* no earlier row opened a wall to, and that cell is alone in its set.
C15_Witness ==
  /\ AfterVisitRow /\ rowIdx >= 2 /\ Len(rows[rowIdx]) >= 2
  /\ LET last == rows[rowIdx][Len(rows[rowIdx])]
     IN  /\ \A m \in 1 .. Len(removed) : removed[m][2] # last
         /\ \E j \in 1 .. Len(pathSets) : pathSets[j] = {last}

\* visitNextRow(row, ...) is running on rows[rowIdx]
InVisitNextRow == pc \in {"visitNextRow", "advance"}

\* the walls opened from a cell of the j-th set in the current row to a cell of
\* the next row that is in the j-th set too
ForwardWalls(j) ==
  LET row == Range(rows[rowIdx])
      nextRow == Range(rows[rowIdx + 1])
  IN  {e \in Opened : e \subseteq pathSets[j] /\ e \cap row # {} /\ e \cap nextRow # {}}

\* C16: in every row-advance pass visitNextRow(row, ...) every path set has at
\* least one member in the current row, the count n of cells chosen from a set
\* is at least 1 and at most the number of the set's members in the current row,
\* and every set the pass has gone through has a wall opened from the current
\* row to a next-row cell that was added to the same set.
C16_EverySetAdvances ==
  InVisitNextRow =>
    LET row == Range(rows[rowIdx])
    IN  /\ \A j \in 1 .. Len(pathSets) : pathSets[j] \cap row # {}
        /\ pc = "advance" =>
             /\ 1 <= Len(picked)
             /\ Len(picked) <= Cardinality(pathSets[setIdx] \cap row)
        /\ \A j \in 1 .. Len(pathSets) : j < setIdx => ForwardWalls(j) # {}

\* C16 witness: the row-advance pass of a row after the first has gone through
\* all of two or more sets, and one of them opened two walls forward.
C16_Witness ==
  /\ pc = "visitNextRow" /\ setIdx > Len(pathSets)
  /\ rowIdx >= 2 /\ Len(pathSets) >= 2
  /\ \E j \in 1 .. Len(pathSets) : Cardinality(ForwardWalls(j)) >= 2

\* C17: at every point of a generation run with the circular adapter the
\* path-set collection is a partition: no set is empty and no cell index is a
\* member of two sets, after every join and every singleton pushed in visitRow
\* and after every set.add in visitNextRow.
C17_PathSetsPartition ==
  board.kind = "circ" =>
    /\ \A j \in 1 .. Len(pathSets) : pathSets[j] # {}
    /\ \A j \in 1 .. Len(pathSets), m \in 1 .. Len(pathSets) :
         j # m => pathSets[j] \cap pathSets[m] = {}

\* C17 witness: on a circular board, in the row-advance pass of a row after the
\* first, a set has already been added to, a set of three or more cells has
\* come out of joins, and a cell of the row that no wall was opened to sits in
\* a set pushed for it alone.
C17_Witness ==
  /\ board.kind = "circ" /\ pc = "visitNextRow" /\ rowIdx >= 2 /\ setIdx > 1
  /\ \E j \in 1 .. Len(pathSets) : Cardinality(pathSets[j]) >= 3
  /\ \E c \in Range(rows[rowIdx]) :
       /\ \A m \in 1 .. Len(removed) : c \notin {removed[m][1], removed[m][2]}
       /\ \E j \in 1 .. Len(pathSets) : pathSets[j] = {c}

---------------------------------------------------------------------------
(* Claims about generate with an adapter that has a gap, checked under     *)
(* SpecGenGap.                                                             *)

\* the place in rows of the row that holds the cell
RowOf(c) == CHOOSE j \in 1 .. Len(rows) : c \in Range(rows[j])

\* C14: when getNextRowNeighbours returns an empty list for a cell chosen in the
\* row-advance pass, generate does not complete normally unless the path set of
\* that cell has a wall opened forward from one of its cells of that row or
\* holds a cell of the next row.
C14_GapCellNotDropped ==
  pc = "done" =>
    \A m \in 1 .. Len(removed) :
      removed[m][2] = Undefined =>
        LET cell == removed[m][1]
            set == pathSets[getItemSet(cell, pathSets)]
        IN  \/ \E d \in set \cap Range(rows[RowOf(cell)]) : OpensForward(d)
            \/ set \cap Range(rows[RowOf(cell) + 1]) # {}

---------------------------------------------------------------------------
(* Claims about the termination of generate, checked under SpecGenLive.    *)

\* how one step moves through the passes of generate: an intra-row pass is
\* followed by the row-advance pass of the same row, a row-advance pass by the
\* intra-row pass of the next row or, after the last row but one, by the final
\* pass, and the final pass by the return
PassOrder ==
  /\ pc = "visitRow" => pc' \in {"visitRow", "visitNextRow"} /\ rowIdx' = rowIdx
  /\ pc = "advance" => pc' \in {"advance", "visitNextRow"} /\ rowIdx' = rowIdx
  /\ pc = "visitNextRow" =>
       \/ pc' \in {"visitNextRow", "advance"} /\ rowIdx' = rowIdx
       \/ pc' = "visitRow" /\ rowIdx' = rowIdx + 1 /\ rowIdx' < Len(rows)
       \/ pc' = "finalRow" /\ rowIdx' = rowIdx + 1 /\ rowIdx' = Len(rows)
  /\ pc = "finalRow" => pc' \in {"finalRow", "done"} /\ rowIdx' = rowIdx /\ VisitedRow = rows[1]
  /\ pc = "done" => pc' = "done"

\* C21: generate terminates on every board with at least one row, whatever the
\* random choices are: every run reaches the return, each row except the last
\* gets one intra-row pass and then one row-advance pass, one final pass over
\* the first row follows, and no pass goes on forever.
C21_GenerateTerminates ==
  /\ <>(pc = "done")
  /\ [][PassOrder]_vars
  /\ [](pc = "done" => rowIdx = Len(rows))

\* C21 witness: generate has returned on a board of three or more rows after a
\* row-advance pass that took two cells of one set.
C21_Witness ==
  /\ pc = "done" /\ Len(rows) >= 3
  /\ \E j \in 1 .. Len(removed), m \in 1 .. Len(removed) :
       /\ j # m
       /\ RowOf(removed[j][1]) = RowOf(removed[m][1])
       /\ RowOf(removed[j][2]) = RowOf(removed[j][1]) + 1
       /\ RowOf(removed[m][2]) = RowOf(removed[m][1]) + 1
       /\ Connected(removed[j][1], removed[m][1], WallsWithin(RowOf(removed[j][1])))

---------------------------------------------------------------------------
(* Claims about the player, checked under SpecPlayer.                      *)

\* the cell next to a position in a direction
Board_stepIn(position, direction) ==
  CASE direction = "UP" -> [x |-> position.x, y |-> position.y - 1]
    [] direction = "DOWN" -> [x |-> position.x, y |-> position.y + 1]
    [] direction = "LEFT" -> [x |-> position.x - 1, y |-> position.y]
    [] direction = "RIGHT" -> [x |-> position.x + 1, y |-> position.y]

=============================================================================
